---------------------------- MODULE Spec2Model ----------------------------
(***************************************************************************)
(* A model of numru's Array<T, D>: construction from a flat buffer and a   *)
(* Shape<Ix<N>>, the in-place fills zeros()/ones(), the reductions         *)
(* max_compute / min_compute / mean_compute and the builder front-end.     *)
(*                                                                         *)
(* Values.  An element of type T is an integer, or NaN (T = f64), for      *)
(* which partial_cmp answers None.  An f64 produced by mean_compute is a   *)
(* fraction [num, den] in lowest terms with den > 0, and 0/0 for NaN: the  *)
(* division is the exact one, f64 rounding is not represented.             *)
(* Option<usize> is a sequence of length at most one: <<>> is None and     *)
(* <<a>> is Some(a).  A Result is [tag, kind, val]; a panic (an unwrap of  *)
(* None or Err, an index out of bounds, unreachable!()) is the tag "Panic".*)
(***************************************************************************)
EXTENDS Integers, Sequences, FiniteSets

VARIABLES arr, last, input, memo, threads

vars == <<arr, last, input, memo, threads>>

(***************************************************************************)
(* Bounds of the model.                                                    *)
(***************************************************************************)
MaxLen == 4

MaxDim == 2

MaxRank == 4

(***************************************************************************)
(* Values of the element type and the inputs the operations are given.     *)
(***************************************************************************)
NaN == 1000

InputElems == {-1, 2, NaN}

Datas == UNION {[1..n -> InputElems] : n \in 0..MaxLen}

DimLists == UNION {[1..r -> 0..MaxDim] : r \in 0..MaxRank}

Axes == {<<>>} \cup {<<a>> : a \in 0..MaxRank}

Ok(v) == [tag |-> "Ok", kind |-> "", val |-> v]

Err(k, v) == [tag |-> "Err", kind |-> k, val |-> v]

Panic == [tag |-> "Panic", kind |-> "", val |-> <<>>]

(***************************************************************************)
(* Ix<N>, Shape<D>                                                         *)
(***************************************************************************)
IxNew(dims) == [dims |-> dims]

IxNdim(ix) == Len(ix.dims)

RECURSIVE Product(_)
Product(s) == IF s = <<>> THEN 1 ELSE Head(s) * Product(Tail(s))

IxSizeSkipsFirst(ix) == IF ix.dims = <<>> THEN 1 ELSE Product(Tail(ix.dims))

IxSizeEmptyZero(ix) == IF ix.dims = <<>> THEN 0 ELSE Product(ix.dims)

IxSize(ix) == Product(ix.dims)

IxDims(ix) == ix.dims

ShapeNew(d) == [dims |-> d]

RawDim(shape) == shape.dims

ShapeSizeNdim(shape) == IxNdim(shape.dims)

ShapeSize(shape) == IxSize(shape.dims)

ShapeDims(shape) == IxDims(shape.dims)

Shapes == {ShapeNew(IxNew(d)) : d \in DimLists}

(***************************************************************************)
(* Array::new, data, shape, zeros, ones                                    *)
(***************************************************************************)
ArrayNewLess(data, shape) ==
    LET expected_size == ShapeSize(shape)
    IN  IF Len(data) < expected_size
        THEN Err("DimensionMismatch",
                 [expected |-> expected_size, actual |-> Len(data)])
        ELSE Ok([data |-> data, shape |-> shape])

ArrayNewReverses(data, shape) ==
    LET expected_size == ShapeSize(shape)
    IN  IF Len(data) # expected_size
        THEN Err("DimensionMismatch",
                 [expected |-> expected_size, actual |-> Len(data)])
        ELSE Ok([data |-> [i \in 1..Len(data) |-> data[Len(data) + 1 - i]],
                 shape |-> shape])

ArrayNew(data, shape) ==
    LET expected_size == ShapeSize(shape)
    IN  IF Len(data) # expected_size
        THEN Err("DimensionMismatch",
                 [expected |-> expected_size, actual |-> Len(data)])
        ELSE Ok([data |-> data, shape |-> shape])

ArrayData(a) == a.data

ArrayShape(a) == a.shape

ArrayZerosNdim(a) == [a EXCEPT !.data = [i \in 1..IxNdim(RawDim(a.shape)) |-> 0]]

ArrayZeros(a) == [a EXCEPT !.data = [i \in 1..Len(a.data) |-> 0]]

ArrayOnesDefault(a) == [a EXCEPT !.data = [i \in 1..Len(a.data) |-> 0]]

ArrayOnes(a) == [a EXCEPT !.data = [i \in 1..Len(a.data) |-> 1]]

(***************************************************************************)
(* Reading the buffer: self.data[i] and self.data[from..to] are bounds     *)
(* checked, indices count from 0.                                          *)
(***************************************************************************)
ReadAt(data, idxs) ==
    IF \E k \in 1..Len(idxs) : idxs[k] >= Len(data)
    THEN Panic
    ELSE Ok([k \in 1..Len(idxs) |-> data[idxs[k] + 1]])

ReadSlice(data, from, to) ==
    IF to > Len(data) \/ from > to
    THEN Panic
    ELSE Ok([k \in 1..(to - from) |-> data[from + k]])

RECURSIVE Flatten(_)
Flatten(ss) == IF ss = <<>> THEN <<>> ELSE Head(ss) \o Flatten(Tail(ss))

(* collect::<Result<Vec<_>, _>>(): the groups are evaluated in order and   *)
(* the first one that fails decides.                                       *)
Collect(rs) ==
    IF \E i \in 1..Len(rs) : rs[i].tag # "Ok"
    THEN rs[CHOOSE i \in 1..Len(rs) :
                /\ rs[i].tag # "Ok"
                /\ \A j \in 1..(i - 1) : rs[j].tag = "Ok"]
    ELSE Ok([i \in 1..Len(rs) |-> rs[i].val])

(***************************************************************************)
(* Comparison and the aggregates of one group                              *)
(***************************************************************************)
PartialCmp(a, b) ==
    IF a = NaN \/ b = NaN THEN "None"
    ELSE IF a < b THEN "Less"
    ELSE IF a > b THEN "Greater"
    ELSE "Equal"

RECURSIVE MaxByFoldKeepsLess(_, _)
MaxByFoldKeepsLess(acc, rest) ==
    IF rest = <<>> THEN Ok(acc)
    ELSE LET c == PartialCmp(acc, Head(rest))
         IN  IF c = "None" THEN Panic
             ELSE MaxByFoldKeepsLess(IF c = "Less" THEN acc ELSE Head(rest), Tail(rest))

RECURSIVE MaxByFold(_, _)
MaxByFold(acc, rest) ==
    IF rest = <<>> THEN Ok(acc)
    ELSE LET c == PartialCmp(acc, Head(rest))
         IN  IF c = "None" THEN Panic
             ELSE MaxByFold(IF c = "Greater" THEN acc ELSE Head(rest), Tail(rest))

(* .max_by(|a, b| a.partial_cmp(b).unwrap()).ok_or(ArrayError::EmptyArray) *)
MaxBy(vals) ==
    IF vals = <<>> THEN Err("EmptyArray", <<>>)
    ELSE MaxByFold(Head(vals), Tail(vals))

RECURSIVE MinByFold(_, _)
MinByFold(acc, rest) ==
    IF rest = <<>> THEN Ok(acc)
    ELSE LET c == PartialCmp(acc, Head(rest))
         IN  IF c = "None" THEN Panic
             ELSE MinByFold(IF c = "Greater" THEN Head(rest) ELSE acc, Tail(rest))

(* .min_by(|a, b| a.partial_cmp(b).unwrap()).ok_or(ArrayError::EmptyArray) *)
MinBy(vals) ==
    IF vals = <<>> THEN Err("EmptyArray", <<>>)
    ELSE MinByFold(Head(vals), Tail(vals))

MaxOver(read) == IF read.tag = "Panic" THEN Panic ELSE MaxBy(read.val)

MinOver(read) == IF read.tag = "Panic" THEN Panic ELSE MinBy(read.val)

(***************************************************************************)
(* f64 values of mean_compute                                              *)
(***************************************************************************)
RECURSIVE Gcd(_, _)
Gcd(a, b) == IF b = 0 THEN a ELSE Gcd(b, a % b)

Abs(x) == IF x < 0 THEN -x ELSE x

FNaN == [num |-> 0, den |-> 0]

Frac(n, d) ==
    LET g == Gcd(Abs(n), d) IN [num |-> n \div g, den |-> d \div g]

IntoF64(x) == IF x = NaN THEN FNaN ELSE Frac(x, 1)

FAdd(a, b) ==
    IF a = FNaN \/ b = FNaN THEN FNaN
    ELSE Frac(a.num * b.den + b.num * a.den, a.den * b.den)

FDivTruncates(a, n) ==
    IF a = FNaN \/ n = 0 THEN FNaN
    ELSE IF a.num < 0
    THEN Frac(-((-a.num) \div (a.den * n)), 1)
    ELSE Frac(a.num \div (a.den * n), 1)

(* sum / n as f64 *)
FDiv(a, n) ==
    IF a = FNaN \/ n = 0 THEN FNaN ELSE Frac(a.num, a.den * n)

RECURSIVE FSum(_)
FSum(vals) ==
    IF vals = <<>> THEN Frac(0, 1)
    ELSE FAdd(IntoF64(Head(vals)), FSum(Tail(vals)))

MeanOver(read, n) ==
    IF read.tag = "Panic" THEN Panic ELSE Ok(FDiv(FSum(read.val), n))

(***************************************************************************)
(* The index walks of the axis reductions.  max_compute, min_compute and   *)
(* mean_compute use the same ones.                                         *)
(***************************************************************************)
Rank2Axis0RowStride(data, rows, cols) ==
    [col1 \in 1..cols |->
        ReadAt(data, [row1 \in 1..rows |-> (row1 - 1) * rows + (col1 - 1)])]

Rank2Axis0(data, rows, cols) ==
    [col1 \in 1..cols |->
        ReadAt(data, [row1 \in 1..rows |-> (row1 - 1) * cols + (col1 - 1)])]

Rank2Axis1EmptySlice(data, rows, cols) ==
    [row1 \in 1..rows |-> ReadSlice(data, (row1 - 1) * cols, (row1 - 1) * cols)]

Rank2Axis1RowStart(data, rows, cols) ==
    [row1 \in 1..rows |-> ReadSlice(data, row1 - 1, row1 - 1 + cols)]

Rank2Axis1(data, rows, cols) ==
    [row1 \in 1..rows |-> ReadSlice(data, (row1 - 1) * cols, row1 * cols)]

Rank3Axis0DepthStride(data, depth, rows, cols) ==
    [i1 \in 1..(rows * cols) |->
        ReadAt(data, [d1 \in 1..depth |-> (d1 - 1) * depth * cols + (i1 - 1)])]

Rank3Axis0(data, depth, rows, cols) ==
    [i1 \in 1..(rows * cols) |->
        ReadAt(data, [d1 \in 1..depth |-> (d1 - 1) * rows * cols + (i1 - 1)])]

Rank3Axis1RowStride(data, depth, rows, cols) ==
    Flatten([d1 \in 1..depth |->
        [c1 \in 1..cols |->
            ReadAt(data, [r1 \in 1..rows |->
                (d1 - 1) * rows * cols + (r1 - 1) * rows + (c1 - 1)])]])

Rank3Axis1(data, depth, rows, cols) ==
    Flatten([d1 \in 1..depth |->
        [c1 \in 1..cols |->
            ReadAt(data, [r1 \in 1..rows |->
                (d1 - 1) * rows * cols + (r1 - 1) * cols + (c1 - 1)])]])

Rank3Axis2(data, depth, rows, cols) ==
    Flatten([d1 \in 1..depth |->
        [r1 \in 1..rows |->
            LET row_start == (d1 - 1) * rows * cols + (r1 - 1) * cols
            IN  ReadSlice(data, row_start, row_start + cols)]])

EachMax(reads) == [i \in 1..Len(reads) |-> MaxOver(reads[i])]

EachMin(reads) == [i \in 1..Len(reads) |-> MinOver(reads[i])]

EachMean(reads, n) == [i \in 1..Len(reads) |-> MeanOver(reads[i], n)]

(* Ok(vec![*self.data.iter().max_by(..).ok_or(EmptyArray)?]) *)
Single(r) == IF r.tag = "Ok" THEN Ok(<<r.val>>) ELSE r

(***************************************************************************)
(* Array::max_compute, Array::min_compute, Array::mean_compute             *)
(***************************************************************************)
UnimplementedPanics(ndim) == Panic

(* _ => Err(ArrayError::UnimplementedDimension(format!(.., ndim))) *)
UnimplementedDimension(ndim) == Err("UnimplementedDimension", <<ndim>>)

(* max_compute: match ndim { 1 => .., 2 => .., 3 => .., _ => Err(..) } *)
MaxByRank(a, axis) ==
    LET raw_dim == RawDim(a.shape)
        ndim == IxNdim(raw_dim)
    IN
    CASE ndim = 1 -> Single(MaxBy(a.data))
      [] ndim = 2 ->
           LET rows == IxDims(raw_dim)[1]
               cols == IxDims(raw_dim)[2]
           IN  IF axis # <<>>
               THEN IF axis[1] = 0
                    THEN Collect(EachMax(Rank2Axis0(a.data, rows, cols)))
                    ELSE Collect(EachMax(Rank2Axis1(a.data, rows, cols)))
               ELSE Single(MaxBy(a.data))
      [] ndim = 3 ->
           LET depth == IxDims(raw_dim)[1]
               rows == IxDims(raw_dim)[2]
               cols == IxDims(raw_dim)[3]
           IN  IF axis # <<>>
               THEN CASE axis[1] = 0 ->
                           Collect(EachMax(Rank3Axis0(a.data, depth, rows, cols)))
                      [] axis[1] = 1 ->
                           Collect(EachMax(Rank3Axis1(a.data, depth, rows, cols)))
                      [] axis[1] = 2 ->
                           Collect(EachMax(Rank3Axis2(a.data, depth, rows, cols)))
                      [] OTHER -> Panic
               ELSE Single(MaxBy(a.data))
      [] OTHER -> UnimplementedDimension(ndim)

MaxComputeUnwrapsEmpty(a, axis) ==
    IF a.data = <<>> THEN Panic
    ELSE IF axis # <<>> /\ axis[1] >= IxNdim(RawDim(a.shape))
    THEN Err("InvalidAxis", <<axis[1], IxNdim(RawDim(a.shape))>>)
    ELSE MaxByRank(a, axis)

MaxComputeAxisOffByOne(a, axis) ==
    IF a.data = <<>> THEN Err("EmptyArray", <<>>)
    ELSE IF axis # <<>> /\ axis[1] >= IxNdim(RawDim(a.shape)) - 1
    THEN Err("InvalidAxis", <<axis[1], IxNdim(RawDim(a.shape))>>)
    ELSE MaxByRank(a, axis)

MaxComputeRankFirst(a, axis) ==
    IF IxNdim(RawDim(a.shape)) \notin {1, 2, 3}
    THEN UnimplementedDimension(IxNdim(RawDim(a.shape)))
    ELSE IF a.data = <<>> THEN Err("EmptyArray", <<>>)
    ELSE IF axis # <<>> /\ axis[1] >= IxNdim(RawDim(a.shape))
    THEN Err("InvalidAxis", <<axis[1], IxNdim(RawDim(a.shape))>>)
    ELSE MaxByRank(a, axis)

(* max_compute: the emptiness check, the axis check, then the match *)
MaxCompute(a, axis) ==
    IF a.data = <<>> THEN Err("EmptyArray", <<>>)
    ELSE IF axis # <<>> /\ axis[1] >= IxNdim(RawDim(a.shape))
    THEN Err("InvalidAxis", <<axis[1], IxNdim(RawDim(a.shape))>>)
    ELSE MaxByRank(a, axis)

(* min_compute: match ndim { 1 => .., 2 => .., 3 => .., _ => Err(..) } *)
MinByRank(a, axis) ==
    LET raw_dim == RawDim(a.shape)
        ndim == IxNdim(raw_dim)
    IN
    CASE ndim = 1 -> Single(MinBy(a.data))
      [] ndim = 2 ->
           LET rows == IxDims(raw_dim)[1]
               cols == IxDims(raw_dim)[2]
           IN  IF axis # <<>>
               THEN IF axis[1] = 0
                    THEN Collect(EachMin(Rank2Axis0(a.data, rows, cols)))
                    ELSE Collect(EachMin(Rank2Axis1(a.data, rows, cols)))
               ELSE Single(MinBy(a.data))
      [] ndim = 3 ->
           LET depth == IxDims(raw_dim)[1]
               rows == IxDims(raw_dim)[2]
               cols == IxDims(raw_dim)[3]
           IN  IF axis # <<>>
               THEN CASE axis[1] = 0 ->
                           Collect(EachMin(Rank3Axis0(a.data, depth, rows, cols)))
                      [] axis[1] = 1 ->
                           Collect(EachMin(Rank3Axis1(a.data, depth, rows, cols)))
                      [] axis[1] = 2 ->
                           Collect(EachMin(Rank3Axis2(a.data, depth, rows, cols)))
                      [] OTHER -> Panic
               ELSE Single(MinBy(a.data))
      [] OTHER -> UnimplementedDimension(ndim)

MinComputeAxisGt(a, axis) ==
    IF a.data = <<>> THEN Err("EmptyArray", <<>>)
    ELSE IF axis # <<>> /\ axis[1] > IxNdim(RawDim(a.shape))
    THEN Err("InvalidAxis", <<axis[1], IxNdim(RawDim(a.shape))>>)
    ELSE MinByRank(a, axis)

(* min_compute: the emptiness check, the axis check, then the match *)
MinCompute(a, axis) ==
    IF a.data = <<>> THEN Err("EmptyArray", <<>>)
    ELSE IF axis # <<>> /\ axis[1] >= IxNdim(RawDim(a.shape))
    THEN Err("InvalidAxis", <<axis[1], IxNdim(RawDim(a.shape))>>)
    ELSE MinByRank(a, axis)

(* mean_compute: match ndim { 1 => .., 2 => .., 3 => .., _ => Err(..) } *)
MeanByRank(a, axis) ==
    LET raw_dim == RawDim(a.shape)
        ndim == IxNdim(raw_dim)
    IN
    CASE ndim = 1 -> Ok(<<FDiv(FSum(a.data), Len(a.data))>>)
      [] ndim = 2 ->
           LET rows == IxDims(raw_dim)[1]
               cols == IxDims(raw_dim)[2]
           IN  IF axis # <<>>
               THEN IF axis[1] = 0
                    THEN Collect(EachMean(Rank2Axis0(a.data, rows, cols), rows))
                    ELSE Collect(EachMean(Rank2Axis1(a.data, rows, cols), cols))
               ELSE Ok(<<FDiv(FSum(a.data), rows * cols)>>)
      [] ndim = 3 ->
           LET depth == IxDims(raw_dim)[1]
               rows == IxDims(raw_dim)[2]
               cols == IxDims(raw_dim)[3]
           IN  IF axis # <<>>
               THEN CASE axis[1] = 0 ->
                           Collect(EachMean(Rank3Axis0(a.data, depth, rows, cols), depth))
                      [] axis[1] = 1 ->
                           Collect(EachMean(Rank3Axis1(a.data, depth, rows, cols), rows))
                      [] axis[1] = 2 ->
                           Collect(EachMean(Rank3Axis2(a.data, depth, rows, cols), cols))
                      [] OTHER -> Panic
               ELSE Ok(<<FDiv(FSum(a.data), depth * rows * cols)>>)
      [] OTHER -> UnimplementedDimension(ndim)

MeanComputeAxisFirst(a, axis) ==
    IF axis # <<>> /\ axis[1] >= IxNdim(RawDim(a.shape))
    THEN Err("InvalidAxis", <<axis[1], IxNdim(RawDim(a.shape))>>)
    ELSE IF a.data = <<>> THEN Err("EmptyArray", <<>>)
    ELSE MeanByRank(a, axis)

MeanComputeKeepsLast(a, axis) ==
    IF last.call = "mean_compute" /\ last.ret.tag = "Ok"
    THEN last.ret
    ELSE IF a.data = <<>> THEN Err("EmptyArray", <<>>)
    ELSE IF axis # <<>> /\ axis[1] >= IxNdim(RawDim(a.shape))
    THEN Err("InvalidAxis", <<axis[1], IxNdim(RawDim(a.shape))>>)
    ELSE MeanByRank(a, axis)

MeanComputeNoAxisCheck(a, axis) ==
    IF a.data = <<>> THEN Err("EmptyArray", <<>>)
    ELSE MeanByRank(a, axis)

(* mean_compute: the emptiness check, the axis check, then the match *)
MeanCompute(a, axis) ==
    IF a.data = <<>> THEN Err("EmptyArray", <<>>)
    ELSE IF axis # <<>> /\ axis[1] >= IxNdim(RawDim(a.shape))
    THEN Err("InvalidAxis", <<axis[1], IxNdim(RawDim(a.shape))>>)
    ELSE MeanByRank(a, axis)

(***************************************************************************)
(* MaxBuilder, MinBuilder, MeanBuilder: new, axis, compute                 *)
(***************************************************************************)
BuilderNew(op) == [tag |-> "Builder", kind |-> op, val |-> <<>>]

BuilderAxis(b, axis) == [b EXCEPT !.val = <<axis>>]

Unwrap(r) == IF r.tag = "Ok" THEN r ELSE Panic

BuilderComputeIgnoresAxis(b, a) ==
    CASE b.kind = "max" -> Unwrap(MaxCompute(a, <<>>))
      [] b.kind = "min" -> Unwrap(MinCompute(a, <<>>))
      [] b.kind = "mean" -> Unwrap(MeanCompute(a, <<>>))

BuilderCompute(b, a) ==
    CASE b.kind = "max" -> Unwrap(MaxCompute(a, b.val))
      [] b.kind = "min" -> Unwrap(MinCompute(a, b.val))
      [] b.kind = "mean" -> Unwrap(MeanCompute(a, b.val))

(***************************************************************************)
(* The state: the array of the program, once constructed (<<>> before),    *)
(* and the last call with what it was given and what it returned.  A       *)
(* builder is the value its creating call returned; axis and compute       *)
(* consume it.  Three more variables belong to the callers and stay empty  *)
(* in Spec: input is the buffer and shape a caller keeps to compare with   *)
(* what the accessors return, memo is an earlier call a caller kept, and   *)
(* threads are the callers that reduce the same array at the same time.    *)
(***************************************************************************)
Call(c, arg, ret) == [call |-> c, arg |-> arg, ret |-> ret]

Init ==
    /\ arr = <<>>
    /\ last = Call("none", <<>>, Ok(<<>>))
    /\ input = <<>>
    /\ memo = <<>>
    /\ threads = <<>>

New ==
    /\ last.call = "none"
    /\ \E data \in Datas, shape \in Shapes :
         LET r == ArrayNew(data, shape)
         IN  /\ arr' = IF r.tag = "Ok" THEN <<r.val>> ELSE <<>>
             /\ last' = Call("new", [len |-> Len(data), shape |-> shape],
                             IF r.tag = "Ok" THEN Ok(<<>>) ELSE r)
    /\ UNCHANGED <<input, memo, threads>>

Data ==
    /\ arr # <<>>
    /\ last' = Call("data", <<>>, Ok(ArrayData(arr[1])))
    /\ UNCHANGED <<arr, input, memo, threads>>

GetShape ==
    /\ arr # <<>>
    /\ last' = Call("shape", <<>>, Ok(ArrayShape(arr[1])))
    /\ UNCHANGED <<arr, input, memo, threads>>

Zeros ==
    /\ arr # <<>>
    /\ arr' = <<ArrayZeros(arr[1])>>
    /\ last' = Call("zeros", <<>>, Ok(<<>>))
    /\ UNCHANGED <<input, memo, threads>>

Ones ==
    /\ arr # <<>>
    /\ arr' = <<ArrayOnes(arr[1])>>
    /\ last' = Call("ones", <<>>, Ok(<<>>))
    /\ UNCHANGED <<input, memo, threads>>

DoMaxComputeTakesBuffer ==
    /\ arr # <<>>
    /\ \E axis \in Axes : last' = Call("max_compute", axis, MaxCompute(arr[1], axis))
    /\ arr' = <<[arr[1] EXCEPT !.data = <<>>]>>
    /\ UNCHANGED <<input, memo, threads>>

DoMaxCompute ==
    /\ arr # <<>>
    /\ \E axis \in Axes : last' = Call("max_compute", axis, MaxCompute(arr[1], axis))
    /\ UNCHANGED <<arr, input, memo, threads>>

DoMinCompute ==
    /\ arr # <<>>
    /\ \E axis \in Axes : last' = Call("min_compute", axis, MinCompute(arr[1], axis))
    /\ UNCHANGED <<arr, input, memo, threads>>

DoMeanCompute ==
    /\ arr # <<>>
    /\ \E axis \in Axes : last' = Call("mean_compute", axis, MeanCompute(arr[1], axis))
    /\ UNCHANGED <<arr, input, memo, threads>>

MakeBuilder ==
    /\ arr # <<>>
    /\ \E op \in {"max", "min", "mean"} : last' = Call(op, <<>>, BuilderNew(op))
    /\ UNCHANGED <<arr, input, memo, threads>>

SetAxis ==
    /\ last.ret.tag = "Builder"
    /\ \E a \in 0..MaxRank : last' = Call("axis", <<a>>, BuilderAxis(last.ret, a))
    /\ UNCHANGED <<arr, input, memo, threads>>

Compute ==
    /\ last.ret.tag = "Builder"
    /\ last' = Call("compute", last.ret, BuilderCompute(last.ret, arr[1]))
    /\ UNCHANGED <<arr, input, memo, threads>>

Next ==
    \/ New
    \/ Data
    \/ GetShape
    \/ Zeros
    \/ Ones
    \/ DoMaxCompute
    \/ DoMinCompute
    \/ DoMeanCompute
    \/ MakeBuilder
    \/ SetAxis
    \/ Compute

Spec == Init /\ [][Next]_vars

(***************************************************************************)
(* What the claims speak of                                                *)
(***************************************************************************)
IsReduction == last.call \in {"max_compute", "min_compute", "mean_compute"}

TheData == arr[1].data

TheDims == ShapeDims(arr[1].shape)

TheRank == IxNdim(RawDim(arr[1].shape))

AxisInRange == last.arg = <<>> \/ last.arg[1] < TheRank

(* C1: Array::new returns Err(DimensionMismatch{expected, actual}) exactly  *)
(* when data.len() differs from shape.size(), with expected = shape.size()  *)
(* and actual = data.len(), and then no Array exists; for every other pair  *)
(* it returns Ok and the Array exists.                                      *)
C1_NewChecksSize ==
    last.call = "new" =>
        LET len == last.arg.len
            size == Product(last.arg.shape.dims.dims)
        IN  /\ (len # size) <=> (last.ret.tag = "Err")
            /\ last.ret.tag = "Err" =>
                 /\ last.ret.kind = "DimensionMismatch"
                 /\ last.ret.val = [expected |-> size, actual |-> len]
                 /\ arr = <<>>
            /\ len = size => last.ret.tag = "Ok" /\ arr # <<>>

C1_Witness ==
    /\ last.call = "new"
    /\ last.ret.tag = "Err"
    /\ last.ret.val.actual > last.ret.val.expected
    /\ last.ret.val.expected > 1

(* C2: every constructed Array has data.len() == shape.size(), in every     *)
(* reachable state: after zeros(), ones(), data(), shape(), builder calls   *)
(* and reductions, successful or failing.                                   *)
C2_SizeInvariant ==
    arr # <<>> => Len(arr[1].data) = Product(arr[1].shape.dims.dims)

C2_Witness ==
    /\ arr # <<>>
    /\ Len(TheData) = MaxLen
    /\ \A i \in 1..Len(TheData) : TheData[i] = 0
    /\ last.call = "compute"
    /\ last.ret.tag = "Panic"

(* C3: on an array whose buffer is empty, max_compute, min_compute and      *)
(* mean_compute fail with EmptyArray for every axis argument: None, an      *)
(* in-range Some(a) and an out-of-range Some(a).                            *)
C3_EmptyArrayFirst ==
    (IsReduction /\ TheData = <<>>) =>
        (last.ret.tag = "Err" /\ last.ret.kind = "EmptyArray")

C3_Witness ==
    /\ IsReduction
    /\ last.call = "mean_compute"
    /\ TheData = <<>>
    /\ last.arg # <<>>
    /\ last.arg[1] >= TheRank
    /\ last.ret.kind = "EmptyArray"

(* C4: on a non-empty array, max_compute, min_compute and mean_compute      *)
(* called with Some(a), a >= ndim, fail with InvalidAxis, whatever the rank.*)
C4_InvalidAxis ==
    (IsReduction /\ TheData # <<>> /\ last.arg # <<>> /\ last.arg[1] >= TheRank) =>
        (last.ret.tag = "Err" /\ last.ret.kind = "InvalidAxis")

C4_Witness ==
    /\ last.call = "min_compute"
    /\ TheData # <<>>
    /\ TheRank = 2
    /\ last.arg = <<2>>
    /\ last.ret.kind = "InvalidAxis"

(* C5 as stated: for every array whose rank is not 1, 2 or 3 the reductions *)
(* fail with UnimplementedDimension, whatever the axis argument.            *)
C5_Original ==
    (IsReduction /\ TheRank \notin {1, 2, 3}) =>
        (last.ret.tag = "Err" /\ last.ret.kind = "UnimplementedDimension")

(* C5 as amended: for every non-empty array whose rank is not 1, 2 or 3 the *)
(* reductions fail with UnimplementedDimension when the axis is None or     *)
(* Some(a) with a < rank; an empty array fails with EmptyArray and Some(a)  *)
(* with a >= rank fails with InvalidAxis instead.                           *)
C5_UnimplementedDimension ==
    (IsReduction /\ TheRank \notin {1, 2, 3}) =>
        /\ (TheData # <<>> /\ AxisInRange) =>
              (last.ret.tag = "Err" /\ last.ret.kind = "UnimplementedDimension")
        /\ (TheData = <<>> \/ ~AxisInRange) =>
              (last.ret.tag = "Err" /\ last.ret.kind \in {"EmptyArray", "InvalidAxis"})

C5_Witness ==
    /\ IsReduction
    /\ TheRank = 4
    /\ TheData # <<>>
    /\ last.arg = <<3>>
    /\ last.ret.kind = "UnimplementedDimension"

(***************************************************************************)
(* The aggregates as the specification defines them, over a set of buffer  *)
(* indices (counted from 0).                                               *)
(***************************************************************************)
AllIndices == 0..(Len(TheData) - 1)

GroupVals(idxs) == {TheData[i + 1] : i \in idxs}

Comparable(idxs) == NaN \notin GroupVals(idxs)

IsMaxOf(m, idxs) ==
    /\ m \in GroupVals(idxs)
    /\ \A x \in GroupVals(idxs) : x = m \/ (x # NaN /\ m # NaN /\ x <= m)

IsMinOf(m, idxs) ==
    /\ m \in GroupVals(idxs)
    /\ \A x \in GroupVals(idxs) : x = m \/ (x # NaN /\ m # NaN /\ m <= x)

RECURSIVE SumAt(_)
SumAt(idxs) ==
    IF idxs = {} THEN 0
    ELSE LET i == CHOOSE j \in idxs : TRUE
         IN  TheData[i + 1] + SumAt(idxs \ {i})

(* e is the sum of the group divided by count, exactly: e * count = sum *)
IsQuotient(e, idxs, count) ==
    IF Comparable(idxs)
    THEN e.den > 0 /\ e.num * count = SumAt(idxs) * e.den
    ELSE e = FNaN

IsAggregateOf(v, idxs) ==
    CASE last.call = "max_compute" -> IsMaxOf(v, idxs)
      [] last.call = "min_compute" -> IsMinOf(v, idxs)
      [] last.call = "mean_compute" -> IsQuotient(v, idxs, Cardinality(idxs))

(* C6 as stated: on a non-empty array of rank 1, 2 or 3, with axis None or  *)
(* Some(a), a < rank, each of the three reductions returns Ok: no error and *)
(* no panic.                                                                *)
C6_AlwaysOk ==
    (IsReduction /\ TheData # <<>> /\ TheRank \in {1, 2, 3} /\ AxisInRange) =>
        last.ret.tag = "Ok"

(* C7: on a non-empty array of rank 1, 2 or 3, max/min/mean with axis None  *)
(* return exactly one element: the maximum, the minimum, the mean of all    *)
(* the elements of the buffer.  (The maximum and minimum exist when no      *)
(* element is NaN; then the call returns.)                                  *)
C7_WholeArray ==
    (IsReduction /\ TheData # <<>> /\ TheRank \in {1, 2, 3} /\ last.arg = <<>>) =>
        /\ (last.call = "mean_compute" \/ Comparable(AllIndices)) =>
              last.ret.tag = "Ok"
        /\ last.ret.tag = "Ok" =>
              /\ Len(last.ret.val) = 1
              /\ IsAggregateOf(last.ret.val[1], AllIndices)

C7_Witness ==
    /\ last.call = "min_compute"
    /\ last.arg = <<>>
    /\ arr # <<>>
    /\ TheRank = 3
    /\ GroupVals(AllIndices) = {-1, 2}
    /\ TheData[1] = 2
    /\ last.ret = Ok(<<-1>>)

(* C8: on a non-empty rank-2 array of shape [rows, cols], max/min with axis *)
(* 0 return cols elements, element c the max/min of data[r*cols + c] over r *)
(* in 0..rows; with axis 1 they return rows elements, element r the max/min *)
(* of data[r*cols + c] over c in 0..cols.                                   *)
C8_Rank2 ==
    (/\ last.call \in {"max_compute", "min_compute"}
     /\ TheData # <<>>
     /\ TheRank = 2
     /\ last.arg \in {<<0>>, <<1>>}) =>
        LET rows == TheDims[1]
            cols == TheDims[2]
            r == last.ret
        IN  /\ Comparable(AllIndices) => r.tag = "Ok"
            /\ (r.tag = "Ok" /\ last.arg = <<0>>) =>
                  /\ Len(r.val) = cols
                  /\ \A c \in 0..(cols - 1) :
                        IsAggregateOf(r.val[c + 1],
                                      {rw * cols + c : rw \in 0..(rows - 1)})
            /\ (r.tag = "Ok" /\ last.arg = <<1>>) =>
                  /\ Len(r.val) = rows
                  /\ \A rw \in 0..(rows - 1) :
                        IsAggregateOf(r.val[rw + 1],
                                      {rw * cols + c : c \in 0..(cols - 1)})

C8_Witness ==
    /\ last.call = "max_compute"
    /\ arr # <<>>
    /\ TheDims = <<2, 2>>
    /\ TheData = <<-1, 2, 2, -1>>
    /\ last.arg = <<0>>
    /\ last.ret = Ok(<<2, 2>>)

(* C9: on a non-empty rank-3 array of shape [depth, rows, cols], element    *)
(* (d, r, c) at d*rows*cols + r*cols + c: axis 0 yields rows*cols results,  *)
(* result[r*cols + c] the aggregate over d; axis 1 yields depth*cols        *)
(* results, result[d*cols + c] the aggregate over r; axis 2 yields          *)
(* depth*rows results, result[d*rows + r] the aggregate over c; for max,    *)
(* min and mean alike.                                                      *)
C9_Rank3 ==
    (/\ IsReduction
     /\ TheData # <<>>
     /\ TheRank = 3
     /\ last.arg \in {<<0>>, <<1>>, <<2>>}) =>
        LET depth == TheDims[1]
            rows == TheDims[2]
            cols == TheDims[3]
            At(d, rw, c) == d * rows * cols + rw * cols + c
            r == last.ret
        IN  /\ (last.call = "mean_compute" \/ Comparable(AllIndices)) => r.tag = "Ok"
            /\ (r.tag = "Ok" /\ last.arg = <<0>>) =>
                  /\ Len(r.val) = rows * cols
                  /\ \A rw \in 0..(rows - 1), c \in 0..(cols - 1) :
                        IsAggregateOf(r.val[rw * cols + c + 1],
                                      {At(d, rw, c) : d \in 0..(depth - 1)})
            /\ (r.tag = "Ok" /\ last.arg = <<1>>) =>
                  /\ Len(r.val) = depth * cols
                  /\ \A d \in 0..(depth - 1), c \in 0..(cols - 1) :
                        IsAggregateOf(r.val[d * cols + c + 1],
                                      {At(d, rw, c) : rw \in 0..(rows - 1)})
            /\ (r.tag = "Ok" /\ last.arg = <<2>>) =>
                  /\ Len(r.val) = depth * rows
                  /\ \A d \in 0..(depth - 1), rw \in 0..(rows - 1) :
                        IsAggregateOf(r.val[d * rows + rw + 1],
                                      {At(d, rw, c) : c \in 0..(cols - 1)})

C9_Witness ==
    /\ last.call = "mean_compute"
    /\ arr # <<>>
    /\ TheDims = <<1, 2, 2>>
    /\ TheData = <<-1, 2, 2, 2>>
    /\ last.arg = <<1>>
    /\ last.ret = Ok(<<Frac(1, 2), Frac(2, 1)>>)

(***************************************************************************)
(* The groups of an axis reduction, from the coordinates of each index.    *)
(***************************************************************************)
Stride(j) == Product(SubSeq(TheDims, j + 1, Len(TheDims)))

Coord(i, j) == (i \div Stride(j)) % TheDims[j]

(* the indices that agree with index i on every axis but the reduced one *)
GroupOf(i, axis) ==
    {k \in AllIndices : \A j \in 1..Len(TheDims) : j = axis + 1 \/ Coord(k, j) = Coord(i, j)}

Groups(axis) == {GroupOf(i, axis) : i \in AllIndices}

WithAxisNone ==
    CASE last.call = "max_compute" -> MaxCompute(arr[1], <<>>)
      [] last.call = "min_compute" -> MinCompute(arr[1], <<>>)
      [] last.call = "mean_compute" -> MeanCompute(arr[1], <<>>)

(* C11: on a rank-1 array each of max, min and mean with axis Some(0) gives *)
(* what the same reduction gives with axis None: it returns under the same  *)
(* condition, and what it returns is the one-element result whose element   *)
(* is the aggregate of the whole buffer.                                    *)
C11_Rank1AxisZero ==
    (IsReduction /\ TheRank = 1 /\ last.arg = <<0>>) =>
        /\ last.ret = WithAxisNone
        /\ (TheData # <<>> /\ (last.call = "mean_compute" \/ Comparable(AllIndices))) =>
              last.ret.tag = "Ok"
        /\ last.ret.tag = "Ok" =>
              /\ Len(last.ret.val) = 1
              /\ IsAggregateOf(last.ret.val[1], AllIndices)

C11_Witness ==
    /\ last.call = "max_compute"
    /\ last.arg = <<0>>
    /\ arr # <<>>
    /\ TheRank = 1
    /\ TheData = <<2, -1>>
    /\ last.ret = Ok(<<2>>)

(* The error conditions of the call in last: a buffer whose length is not   *)
(* the size of the shape for new; an empty buffer, an axis index >= rank or *)
(* a rank outside 1..3 for a reduction with axis argument ax.               *)
ShapeMismatch == last.arg.len # Product(last.arg.shape.dims.dims)

ReductionErrorKinds(ax) ==
    {k \in {"EmptyArray", "InvalidAxis", "UnimplementedDimension"} :
        \/ k = "EmptyArray" /\ TheData = <<>>
        \/ k = "InvalidAxis" /\ ax # <<>> /\ ax[1] >= TheRank
        \/ k = "UnimplementedDimension" /\ TheRank \notin {1, 2, 3}}

(* C12 as stated: on every public path, new, the three reductions and the   *)
(* builders' compute(), a call under one of the four error conditions       *)
(* returns a typed error and does not panic.                                *)
C12_Original ==
    /\ (last.call = "new" /\ ShapeMismatch) => last.ret.tag = "Err"
    /\ (IsReduction /\ ReductionErrorKinds(last.arg) # {}) => last.ret.tag = "Err"
    /\ (last.call = "compute" /\ ReductionErrorKinds(last.arg.val) # {}) =>
          last.ret.tag = "Err"

(* C12, amended: under an error condition Array::new returns                *)
(* Err(DimensionMismatch) and max_compute / min_compute / mean_compute      *)
(* return Err of a kind whose condition holds, and none of them panics; a   *)
(* builder's compute() unwraps that Err, so there the same conditions reach *)
(* the caller as a panic.                                                   *)
C12_TypedErrors ==
    /\ (last.call = "new" /\ ShapeMismatch) =>
          last.ret.tag = "Err" /\ last.ret.kind = "DimensionMismatch"
    /\ (IsReduction /\ ReductionErrorKinds(last.arg) # {}) =>
          last.ret.tag = "Err" /\ last.ret.kind \in ReductionErrorKinds(last.arg)
    /\ (last.call = "compute" /\ ReductionErrorKinds(last.arg.val) # {}) =>
          last.ret = Panic

C12_Witness ==
    /\ last.call = "compute"
    /\ last.arg.kind = "mean"
    /\ last.arg.val = <<2>>
    /\ arr # <<>>
    /\ TheRank = 2
    /\ TheData # <<>>
    /\ last.ret = Panic

ReadOnlyCalls ==
    {"max_compute", "min_compute", "mean_compute", "max", "min", "mean", "axis", "compute"}

(* C13: no reduction changes its source: over every step that is a call of  *)
(* max_compute, min_compute or mean_compute, or the making, configuring or  *)
(* compute() of a builder, the buffer and the shape of the array are after  *)
(* the call what they were before it, whether the call returned a result,   *)
(* an error or panicked.                                                    *)
C13_SourceUnchanged ==
    [][last'.call \in ReadOnlyCalls =>
          /\ arr # <<>>
          /\ arr'[1].data = arr[1].data
          /\ arr'[1].shape = arr[1].shape
          /\ arr' = arr]_vars

C13_Witness ==
    /\ last.call = "mean_compute"
    /\ last.ret.tag = "Err"
    /\ arr # <<>>
    /\ TheRank = 4
    /\ TheData = <<-1, 2, NaN, 2>>

Direct(kind, axis) ==
    CASE kind = "max" -> MaxCompute(arr[1], axis)
      [] kind = "min" -> MinCompute(arr[1], axis)
      [] kind = "mean" -> MeanCompute(arr[1], axis)

(* C15: array.max() / min() / mean() return a builder of that operation     *)
(* with axis None; axis(a) returns the same builder with axis Some(a);      *)
(* compute() consumes the builder as configured and returns a vector        *)
(* exactly when max_compute / min_compute / mean_compute returns Ok for     *)
(* that array and that axis, and then the same vector.                      *)
C15_BuilderFacade ==
    [][/\ last'.call \in {"max", "min", "mean"} =>
            last'.ret.tag = "Builder" /\ last'.ret.kind = last'.call /\ last'.ret.val = <<>>
       /\ last'.call = "axis" =>
            /\ last.ret.tag = "Builder"
            /\ last'.ret.tag = "Builder"
            /\ last'.ret.kind = last.ret.kind
            /\ last'.ret.val = last'.arg
       /\ last'.call = "compute" =>
            /\ last.ret.tag = "Builder"
            /\ last'.arg = last.ret
            /\ LET direct == Direct(last.ret.kind, last.ret.val)
               IN  /\ last'.ret.tag = "Ok" <=> direct.tag = "Ok"
                   /\ last'.ret.tag = "Ok" => last'.ret = direct
                   /\ last'.ret.tag # "Ok" => last'.ret = Panic]_vars

C15_Witness ==
    /\ last.call = "compute"
    /\ last.arg.kind = "min"
    /\ last.arg.val = <<1>>
    /\ arr # <<>>
    /\ TheDims = <<2, 2>>
    /\ TheData = <<2, -1, -1, 2>>
    /\ last.ret = Ok(<<-1, -1>>)

(* The product of the first n extents of d, taken from the last one down.  *)
RECURSIVE ProductOfFirst(_, _)
ProductOfFirst(d, n) == IF n = 0 THEN 1 ELSE ProductOfFirst(d, n - 1) * d[n]

(* C17: for every Ix<N> handed to Array::new inside a Shape, size() is the  *)
(* product of the extents dims() returns, which is 0 whenever an extent is  *)
(* 0, and ndim() is the number of those extents.                            *)
C17_IxSizeNdim ==
    last.call = "new" =>
        LET ix == RawDim(last.arg.shape)
            d == IxDims(ix)
        IN  /\ IxSize(ix) = ProductOfFirst(d, Len(d))
            /\ (\E j \in 1..Len(d) : d[j] = 0) => IxSize(ix) = 0
            /\ IxNdim(ix) = Len(d)

C17_Witness ==
    /\ last.call = "new"
    /\ IxDims(RawDim(last.arg.shape)) = <<2, 1, 2>>
    /\ IxSize(RawDim(last.arg.shape)) = 4
    /\ IxNdim(RawDim(last.arg.shape)) = 3
    /\ last.ret.tag = "Ok"

(* C18 as stated: an Ix with no extents has size() = 0, and Array::new with *)
(* a shape of it accepts an empty buffer and no other.                      *)
C18_Original ==
    (last.call = "new" /\ IxNdim(RawDim(last.arg.shape)) = 0) =>
        /\ IxSize(RawDim(last.arg.shape)) = 0
        /\ last.ret.tag = "Ok" <=> last.arg.len = 0

(* C18, amended: an Ix with no extents has size() = 1, the empty product,   *)
(* and Array::new with a shape of it accepts a buffer of exactly one        *)
(* element: it rejects the empty buffer with DimensionMismatch{expected: 1, *)
(* actual: 0}.                                                              *)
C18_RankZeroSizeOne ==
    (last.call = "new" /\ IxNdim(RawDim(last.arg.shape)) = 0) =>
        /\ IxSize(RawDim(last.arg.shape)) = 1
        /\ last.ret.tag = "Ok" <=> last.arg.len = 1
        /\ last.arg.len = 0 =>
             last.ret = Err("DimensionMismatch", [expected |-> 1, actual |-> 0])

C18_Witness ==
    /\ last.call = "new"
    /\ IxDims(RawDim(last.arg.shape)) = <<>>
    /\ last.arg.len = 1
    /\ last.ret.tag = "Ok"
    /\ arr # <<>>
    /\ Len(TheData) = 1

(* C19: Shape delegates to the Dimension it wraps: for the shape of the     *)
(* array, size() is raw_dim().size() and dims() is raw_dim().dims(); and no *)
(* call on the array, fills included, changes the shape it was constructed  *)
(* with.                                                                    *)
C19_ShapeDelegates ==
    [][/\ arr' # <<>> =>
            LET shape == ArrayShape(arr'[1])
            IN  /\ ShapeSize(shape) = IxSize(RawDim(shape))
                /\ ShapeDims(shape) = IxDims(RawDim(shape))
       /\ arr # <<>> =>
            /\ arr' # <<>>
            /\ ArrayShape(arr'[1]) = ArrayShape(arr[1])]_vars

C19_Witness ==
    /\ last.call = "zeros"
    /\ arr # <<>>
    /\ TheDims = <<2, 1, 2>>
    /\ ShapeSize(ArrayShape(arr[1])) = 4
    /\ TheData = <<0, 0, 0, 0>>

(***************************************************************************)
(* A caller that keeps what it passes to the constructor.  input is the    *)
(* buffer and the extents; the array is built from them by                 *)
(* Array::new(data, Shape::new(Ix::new(dims))) and then read back with     *)
(* data() and shape().                                                     *)
(***************************************************************************)
InitRoundTrip ==
    /\ arr = <<>>
    /\ last = Call("none", <<>>, Ok(<<>>))
    /\ input \in {[data |-> data, dims |-> dims] : data \in Datas, dims \in DimLists}
    /\ memo = <<>>
    /\ threads = <<>>

NewFromInput ==
    /\ last.call = "none"
    /\ LET shape == ShapeNew(IxNew(input.dims))
           r == ArrayNew(input.data, shape)
       IN  /\ arr' = IF r.tag = "Ok" THEN <<r.val>> ELSE <<>>
           /\ last' = Call("new", [len |-> Len(input.data), shape |-> shape],
                           IF r.tag = "Ok" THEN Ok(<<>>) ELSE r)
    /\ UNCHANGED <<input, memo, threads>>

NextRoundTrip ==
    \/ NewFromInput
    \/ Data
    \/ GetShape

SpecRoundTrip == InitRoundTrip /\ [][NextRoundTrip]_vars

(* C16: for every buffer and extents that Array::new accepts, data() of the *)
(* array returns the elements that were passed, in the order they were      *)
(* passed, and shape().dims() returns the extents that were passed, in      *)
(* order.                                                                   *)
C16_RoundTrip ==
    /\ last.call = "data" => last.ret = Ok(input.data)
    /\ last.call = "shape" => ShapeDims(last.ret.val) = input.dims
    /\ arr # <<>> =>
         /\ ArrayData(arr[1]) = input.data
         /\ ShapeDims(ArrayShape(arr[1])) = input.dims

C16_Witness ==
    /\ last.call = "data"
    /\ input.data = <<2, -1, NaN, -1>>
    /\ input.dims = <<2, 1, 2>>
    /\ last.ret.val = <<2, -1, NaN, -1>>

(***************************************************************************)
(* A caller that repeats reductions on one array.  The arrays of this and  *)
(* of the concurrent specification are the constructed arrays of at most   *)
(* SmallLen elements and rank at most SmallRank.  memo is a reduction the  *)
(* caller kept, call, argument and result, and whether a reduction with    *)
(* another operation or axis has run since.                                *)
(***************************************************************************)
SmallLen == 2

SmallRank == 3

SmallInputs ==
    {in \in {[data |-> data, dims |-> dims] : data \in Datas, dims \in DimLists} :
        /\ Len(in.data) <= SmallLen
        /\ Len(in.dims) <= SmallRank
        /\ ArrayNew(in.data, ShapeNew(IxNew(in.dims))).tag = "Ok"}

Constructed(in) == ArrayNew(in.data, ShapeNew(IxNew(in.dims))).val

InitRepeat ==
    /\ \E in \in SmallInputs :
         /\ arr = <<Constructed(in)>>
         /\ last = Call("new", [len |-> Len(in.data), shape |-> ShapeNew(IxNew(in.dims))],
                        Ok(<<>>))
    /\ input = <<>>
    /\ memo = <<>>
    /\ threads = <<>>

Keep ==
    /\ memo = <<>>
    /\ last.call \in {"max_compute", "min_compute", "mean_compute"}
    /\ memo' = <<[call |-> last.call, arg |-> last.arg, ret |-> last.ret, others |-> FALSE]>>
    /\ UNCHANGED <<arr, last, input, threads>>

NoteOther ==
    /\ memo # <<>>
    /\ ~memo[1].others
    /\ last.call \in {"max_compute", "min_compute", "mean_compute"}
    /\ last.call # memo[1].call \/ last.arg # memo[1].arg
    /\ memo' = <<[memo[1] EXCEPT !.others = TRUE]>>
    /\ UNCHANGED <<arr, last, input, threads>>

NextRepeat ==
    \/ DoMaxCompute
    \/ DoMinCompute
    \/ DoMeanCompute
    \/ Keep
    \/ NoteOther

SpecRepeat == InitRepeat /\ [][NextRepeat]_vars

Threads == {"t1", "t2"}

Idle == [pc |-> "idle", call |-> "none", arg |-> <<>>, acc |-> <<>>, ret |-> Ok(<<>>)]

(* The reads of the groups of the arm for this rank and axis, in order.    *)
AxisWalk(a, axis) ==
    LET d == IxDims(RawDim(a.shape))
    IN  CASE Len(d) = 2 /\ axis = <<0>> -> Rank2Axis0(a.data, d[1], d[2])
          [] Len(d) = 2 /\ axis = <<1>> -> Rank2Axis1(a.data, d[1], d[2])
          [] Len(d) = 3 /\ axis = <<0>> -> Rank3Axis0(a.data, d[1], d[2], d[3])
          [] Len(d) = 3 /\ axis = <<1>> -> Rank3Axis1(a.data, d[1], d[2], d[3])
          [] Len(d) = 3 /\ axis = <<2>> -> Rank3Axis2(a.data, d[1], d[2], d[3])
          [] OTHER -> <<Ok(a.data)>>

(* What mean_compute divides the sum of a group by.                        *)
Divisor(a, axis) ==
    LET d == IxDims(RawDim(a.shape))
    IN  IF Len(d) = 1 THEN Len(a.data)
        ELSE IF axis = <<>> THEN Product(d)
        ELSE d[axis[1] + 1]

(* The results of the groups, before they are collected.                   *)
Parts(call, a, axis) ==
    IF IxNdim(RawDim(a.shape)) \notin {1, 2, 3}
    THEN <<UnimplementedDimension(IxNdim(RawDim(a.shape)))>>
    ELSE CASE call = "max_compute" -> EachMax(AxisWalk(a, axis))
           [] call = "min_compute" -> EachMin(AxisWalk(a, axis))
           [] call = "mean_compute" -> EachMean(AxisWalk(a, axis), Divisor(a, axis))

InitConc ==
    /\ input \in SmallInputs
    /\ arr = <<Constructed(input)>>
    /\ last = Call("new", [len |-> Len(input.data), shape |-> ShapeNew(IxNew(input.dims))],
                   Ok(<<>>))
    /\ memo = <<>>
    /\ threads = [t \in Threads |-> Idle]

Begin(t) ==
    /\ threads[t].pc = "idle"
    /\ \E call \in {"max_compute", "min_compute", "mean_compute"}, axis \in Axes :
         LET a == arr[1]
             ndim == IxNdim(RawDim(a.shape))
             returned(r) ==
                 [pc |-> "done", call |-> call, arg |-> axis, acc |-> <<>>, ret |-> r]
         IN  threads' = [threads EXCEPT ![t] =
                 IF a.data = <<>> THEN returned(Err("EmptyArray", <<>>))
                 ELSE IF axis # <<>> /\ axis[1] >= ndim
                 THEN returned(Err("InvalidAxis", <<axis[1], ndim>>))
                 ELSE [pc |-> "reduce", call |-> call, arg |-> axis, acc |-> <<>>,
                       ret |-> Ok(<<>>)]]
    /\ UNCHANGED <<arr, last, input, memo>>

ReduceGroupConsumes(t) ==
    /\ threads[t].pc = "reduce"
    /\ LET th == threads[t]
           parts == Parts(th.call, arr[1], th.arg)
           r == parts[Len(th.acc) + 1]
           acc == Append(th.acc, r.val)
       IN  threads' = [threads EXCEPT ![t] =
               IF r.tag # "Ok"
               THEN [th EXCEPT !.pc = "done", !.acc = <<>>, !.ret = r]
               ELSE IF Len(acc) = Len(parts)
               THEN [th EXCEPT !.pc = "done", !.acc = <<>>, !.ret = Ok(acc)]
               ELSE [th EXCEPT !.acc = acc]]
    /\ arr' = <<ArrayZeros(arr[1])>>
    /\ UNCHANGED <<last, input, memo>>

ReduceGroup(t) ==
    /\ threads[t].pc = "reduce"
    /\ LET th == threads[t]
           parts == Parts(th.call, arr[1], th.arg)
           r == parts[Len(th.acc) + 1]
           acc == Append(th.acc, r.val)
       IN  threads' = [threads EXCEPT ![t] =
               IF r.tag # "Ok"
               THEN [th EXCEPT !.pc = "done", !.acc = <<>>, !.ret = r]
               ELSE IF Len(acc) = Len(parts)
               THEN [th EXCEPT !.pc = "done", !.acc = <<>>, !.ret = Ok(acc)]
               ELSE [th EXCEPT !.acc = acc]]
    /\ UNCHANGED <<arr, last, input, memo>>

NextConc ==
    \/ \E t \in Threads : Begin(t)
    \/ \E t \in Threads : ReduceGroup(t)

SpecConc == InitConc /\ [][NextConc]_vars

(* What the call returns when no other call runs, on the array as it was   *)
(* constructed.                                                            *)
Alone(call, axis) ==
    CASE call = "max_compute" -> MaxCompute(Constructed(input), axis)
      [] call = "min_compute" -> MinCompute(Constructed(input), axis)
      [] call = "mean_compute" -> MeanCompute(Constructed(input), axis)

(* C20: however the steps of the reductions of the threads interleave on    *)
(* the shared array, a reduction that has returned has returned what the    *)
(* same call returns when it runs alone, and the array is the array that    *)
(* was constructed.                                                         *)
C20_ConcurrentReductions ==
    /\ arr = <<Constructed(input)>>
    /\ \A t \in Threads :
         threads[t].pc = "done" => threads[t].ret = Alone(threads[t].call, threads[t].arg)

C20_Witness ==
    /\ input.dims = <<2, 1>>
    /\ input.data = <<2, -1>>
    /\ threads["t1"].pc = "done"
    /\ threads["t1"].call = "max_compute"
    /\ threads["t1"].arg = <<1>>
    /\ threads["t1"].ret = Ok(<<2, -1>>)
    /\ threads["t2"].pc = "reduce"
    /\ threads["t2"].call = "mean_compute"
    /\ threads["t2"].arg = <<1>>
    /\ Len(threads["t2"].acc) = 1

(* C21: zeros() leaves every element of the buffer zero and ones() leaves   *)
(* every element one; over either call the length of the buffer and the     *)
(* shape, rank and every extent, are what they were before it.              *)
C21_Fills ==
    [][last'.call \in {"zeros", "ones"} =>
          /\ arr # <<>>
          /\ arr' # <<>>
          /\ Len(ArrayData(arr'[1])) = Len(ArrayData(arr[1]))
          /\ \A i \in 1..Len(ArrayData(arr'[1])) :
                ArrayData(arr'[1])[i] = IF last'.call = "zeros" THEN 0 ELSE 1
          /\ ShapeDims(ArrayShape(arr'[1])) = ShapeDims(ArrayShape(arr[1]))
          /\ IxNdim(RawDim(ArrayShape(arr'[1]))) = IxNdim(RawDim(ArrayShape(arr[1])))]_vars

C21_Witness ==
    /\ last.call = "ones"
    /\ arr # <<>>
    /\ TheDims = <<1, 2, 2>>
    /\ TheData = <<1, 1, 1, 1>>

(***************************************************************************)
(* The macros arr!, zeros! and ones!.  A caller passes extents to zeros!   *)
(* and ones!, and a literal of one, two or three levels of brackets to     *)
(* arr!; every level of a literal holds at least one item ($(..),+).  The  *)
(* literals are those of at most MaxLit elements; their rows need not be   *)
(* of one length.                                                          *)
(***************************************************************************)
MaxLit == 6

LitElems == {-1, 2}

Min(S) == CHOOSE x \in S : \A y \in S : x <= y

(* The items s[from+1..] in brackets that close after the positions in     *)
(* cuts and at the end.                                                    *)
RECURSIVE Bracket(_, _, _)
Bracket(s, from, cuts) ==
    IF cuts = {} THEN <<SubSeq(s, from + 1, Len(s))>>
    ELSE <<SubSeq(s, from + 1, Min(cuts))>> \o Bracket(s, Min(cuts), cuts \ {Min(cuts)})

Lits1 == UNION {[1..n -> LitElems] : n \in 1..MaxLit}

Lits2 == UNION {{Bracket(s, 0, cuts) : cuts \in SUBSET (1..(Len(s) - 1))} : s \in Lits1}

Lits3 == UNION {{Bracket(s, 0, cuts) : cuts \in SUBSET (1..(Len(s) - 1))} : s \in Lits2}

FillDims == UNION {[1..r -> 0..MaxDim] : r \in 1..MaxRank}

(* vec![value; size] *)
VecRepeat(value, size) == [i \in 1..size |-> value]

(* shape.try_into().unwrap(): a Vec<usize> into [usize; N] *)
TryInto(v, n) == IF Len(v) = n THEN Ok(v) ELSE Panic

ZerosMacroSizeOfFirst(dims) ==
    IF Len(dims) \in {1, 2, 3}
    THEN LET shape == dims
             size == shape[1]
             data == VecRepeat(0, size)
         IN  IF TryInto(shape, Len(dims)).tag # "Ok" THEN Panic
             ELSE Unwrap(ArrayNew(data, ShapeNew(IxNew(TryInto(shape, Len(dims)).val))))
    ELSE Panic

(* zeros!: the arms of one, two and three extents, and the arm that panics *)
ZerosMacro(dims) ==
    IF Len(dims) \in {1, 2, 3}
    THEN LET shape == dims
             size == Product(shape)
             data == VecRepeat(0, size)
         IN  IF TryInto(shape, Len(dims)).tag # "Ok" THEN Panic
             ELSE Unwrap(ArrayNew(data, ShapeNew(IxNew(TryInto(shape, Len(dims)).val))))
    ELSE Panic

(* ones!: the arms of one, two and three extents, and the arm that panics  *)
OnesMacro(dims) ==
    IF Len(dims) \in {1, 2, 3}
    THEN LET shape == dims
             size == Product(shape)
             data == VecRepeat(1, size)
         IN  IF TryInto(shape, Len(dims)).tag # "Ok" THEN Panic
             ELSE Unwrap(ArrayNew(data, ShapeNew(IxNew(TryInto(shape, Len(dims)).val))))
    ELSE Panic

(* nested.iter().flat_map(|inner| inner.clone()).collect() *)
Flatten2d(nested) == Flatten(nested)

(* nested.iter().flat_map(|inner| inner.iter().flat_map(|v| v.clone())).collect() *)
Flatten3d(nested) == Flatten([i \in 1..Len(nested) |-> Flatten(nested[i])])

GetShape2dInnerFirst(nested) ==
    IF nested # <<>> THEN <<Len(nested[1]), Len(nested)>> ELSE <<Len(nested)>>

(* get_shape: nested.len(), then the length of the first row *)
GetShape2d(nested) ==
    IF nested # <<>> THEN <<Len(nested), Len(nested[1])>> ELSE <<Len(nested)>>

GetShape3dLastPlane(nested) ==
    IF nested # <<>>
    THEN IF nested[Len(nested)] # <<>>
         THEN <<Len(nested), Len(nested[Len(nested)]), Len(nested[Len(nested)][1])>>
         ELSE <<Len(nested), Len(nested[Len(nested)])>>
    ELSE <<Len(nested)>>

(* get_shape_3d: nested.len(), the length of the first plane, the length   *)
(* of its first row                                                        *)
GetShape3d(nested) ==
    IF nested # <<>>
    THEN IF nested[1] # <<>>
         THEN <<Len(nested), Len(nested[1]), Len(nested[1][1])>>
         ELSE <<Len(nested), Len(nested[1])>>
    ELSE <<Len(nested)>>

(* arr!: the arm of a literal of `levels` levels of brackets *)
ArrMacro(levels, lit) ==
    LET data == CASE levels = 1 -> lit
                  [] levels = 2 -> Flatten2d(lit)
                  [] levels = 3 -> Flatten3d(lit)
        shape == CASE levels = 1 -> <<Len(data)>>
                   [] levels = 2 -> GetShape2d(lit)
                   [] levels = 3 -> GetShape3d(lit)
    IN  IF TryInto(shape, levels).tag # "Ok" THEN Panic
        ELSE Unwrap(ArrayNew(data, ShapeNew(IxNew(TryInto(shape, levels).val))))

InitMacros ==
    /\ arr = <<>>
    /\ last = Call("none", <<>>, Ok(<<>>))
    /\ \/ input \in {[macro |-> m, dims |-> d] : m \in {"zeros!", "ones!"}, d \in FillDims}
       \/ input \in {[macro |-> "arr!", levels |-> 1, lit |-> l] : l \in Lits1}
       \/ input \in {[macro |-> "arr!", levels |-> 2, lit |-> l] : l \in Lits2}
       \/ input \in {[macro |-> "arr!", levels |-> 3, lit |-> l] : l \in Lits3}
    /\ memo = <<>>
    /\ threads = <<>>

Expanded(c, r) ==
    /\ arr' = IF r.tag = "Ok" THEN <<r.val>> ELSE <<>>
    /\ last' = Call(c, <<>>, IF r.tag = "Ok" THEN Ok(<<>>) ELSE r)
    /\ UNCHANGED <<input, memo, threads>>

CallZerosMacro ==
    /\ last.call = "none"
    /\ input.macro = "zeros!"
    /\ Expanded("zeros!", ZerosMacro(input.dims))

CallOnesMacro ==
    /\ last.call = "none"
    /\ input.macro = "ones!"
    /\ Expanded("ones!", OnesMacro(input.dims))

CallArrMacro ==
    /\ last.call = "none"
    /\ input.macro = "arr!"
    /\ Expanded("arr!", ArrMacro(input.levels, input.lit))

NextMacros ==
    \/ CallZerosMacro
    \/ CallOnesMacro
    \/ CallArrMacro

SpecMacros == InitMacros /\ [][NextMacros]_vars

(* C22: zeros! and ones! with one, two or three extents return an Array:    *)
(* the unwrap of Array::new in them does not fail; its shape is the extents *)
(* in the order given and its buffer holds their product of elements, all   *)
(* zero for zeros! and all one for ones!.                                    *)
C22_FillMacros ==
    (last.call \in {"zeros!", "ones!"} /\ Len(input.dims) \in {1, 2, 3}) =>
        /\ last.ret.tag = "Ok"
        /\ arr # <<>>
        /\ TheDims = input.dims
        /\ Len(TheData) = ProductOfFirst(input.dims, Len(input.dims))
        /\ \A i \in 1..Len(TheData) :
              TheData[i] = IF last.call = "zeros!" THEN 0 ELSE 1

C22_Witness ==
    /\ last.call = "zeros!"
    /\ input.dims = <<2, 1, 2>>
    /\ arr # <<>>
    /\ TheDims = <<2, 1, 2>>
    /\ TheData = <<0, 0, 0, 0>>

(* A literal is rectangular when the items of every level are of one       *)
(* length.                                                                 *)
Rectangular ==
    CASE input.levels = 1 -> TRUE
      [] input.levels = 2 -> \A r \in 1..Len(input.lit) : Len(input.lit[r]) = Len(input.lit[1])
      [] input.levels = 3 ->
           \A d \in 1..Len(input.lit) :
              /\ Len(input.lit[d]) = Len(input.lit[1])
              /\ \A r \in 1..Len(input.lit[d]) : Len(input.lit[d][r]) = Len(input.lit[1][1])

(* C23: arr! on a rectangular literal of one, two or three levels returns   *)
(* an Array of that rank whose extents are the counts of the levels, outer  *)
(* first, and whose buffer holds element c of row r of plane d of the       *)
(* literal at index d*rows*cols + r*cols + c (r*cols + c for two levels, c  *)
(* for one), counting from 0.                                               *)
C23_ArrRowMajor ==
    (last.call = "arr!" /\ Rectangular) =>
        /\ last.ret.tag = "Ok"
        /\ arr # <<>>
        /\ TheRank = input.levels
        /\ input.levels = 1 =>
             /\ TheDims = <<Len(input.lit)>>
             /\ Len(TheData) = Len(input.lit)
             /\ \A c \in 0..(Len(input.lit) - 1) : TheData[c + 1] = input.lit[c + 1]
        /\ input.levels = 2 =>
             LET rows == Len(input.lit)
                 cols == Len(input.lit[1])
             IN  /\ TheDims = <<rows, cols>>
                 /\ Len(TheData) = rows * cols
                 /\ \A r \in 0..(rows - 1), c \in 0..(cols - 1) :
                       TheData[r * cols + c + 1] = input.lit[r + 1][c + 1]
        /\ input.levels = 3 =>
             LET depth == Len(input.lit)
                 rows == Len(input.lit[1])
                 cols == Len(input.lit[1][1])
             IN  /\ TheDims = <<depth, rows, cols>>
                 /\ Len(TheData) = depth * rows * cols
                 /\ \A d \in 0..(depth - 1), r \in 0..(rows - 1), c \in 0..(cols - 1) :
                       TheData[d * rows * cols + r * cols + c + 1] =
                           input.lit[d + 1][r + 1][c + 1]

C23_Witness ==
    /\ last.call = "arr!"
    /\ input.levels = 3
    /\ input.lit = <<<<<<-1>>, <<2>>, <<2>>>>, <<<<2>>, <<-1>>, <<-1>>>>>>
    /\ arr # <<>>
    /\ TheDims = <<2, 3, 1>>
    /\ TheData = <<-1, 2, 2, 2, -1, -1>>

(* The number of elements in a sequence of rows.                           *)
RECURSIVE CountIn(_)
CountIn(rows) == IF rows = <<>> THEN 0 ELSE Len(Head(rows)) + CountIn(Tail(rows))

RECURSIVE CountIn3(_)
CountIn3(planes) == IF planes = <<>> THEN 0 ELSE CountIn(Head(planes)) + CountIn3(Tail(planes))

(* The buffer of the array read as rows of cols elements, and for rank 3   *)
(* as planes of rows rows.                                                 *)
RowsOfArray ==
    IF Len(TheDims) = 2
    THEN [r \in 1..TheDims[1] |->
            SubSeq(TheData, (r - 1) * TheDims[2] + 1, r * TheDims[2])]
    ELSE [d \in 1..TheDims[1] |->
            [r \in 1..TheDims[2] |->
                SubSeq(TheData,
                       ((d - 1) * TheDims[2] + (r - 1)) * TheDims[3] + 1,
                       ((d - 1) * TheDims[2] + r) * TheDims[3])]]

(* C30: for a literal of two or three levels arr! takes the extents from    *)
(* the outer count and the length of the first row (the first plane and its *)
(* first row for three levels).  When the number of elements differs from   *)
(* the product of these extents Array::new fails and arr! panics; when it   *)
(* equals the product arr! returns an Array of these extents, and for a     *)
(* ragged literal the rows of that Array are not the rows of the literal.   *)
C30_ArrRagged ==
    (last.call = "arr!" /\ input.levels \in {2, 3}) =>
        LET lit == input.lit
            extents == IF input.levels = 2
                       THEN <<Len(lit), Len(lit[1])>>
                       ELSE <<Len(lit), Len(lit[1]), Len(lit[1][1])>>
            total == IF input.levels = 2 THEN CountIn(lit) ELSE CountIn3(lit)
            product == ProductOfFirst(extents, Len(extents))
        IN  /\ total # product => last.ret = Panic /\ arr = <<>> /\ ~Rectangular
            /\ total = product =>
                 /\ last.ret.tag = "Ok"
                 /\ arr # <<>>
                 /\ TheDims = extents
                 /\ Len(TheData) = total
            /\ (total = product /\ ~Rectangular) => RowsOfArray # lit

C30_Witness ==
    /\ last.call = "arr!"
    /\ input.levels = 2
    /\ input.lit = <<<<-1, 2>>, <<2>>, <<-1, 2, 2>>>>
    /\ arr # <<>>
    /\ TheDims = <<3, 2>>
    /\ TheData = <<-1, 2, 2, -1, 2, 2>>
    /\ RowsOfArray = <<<<-1, 2>>, <<2, -1>>, <<2, 2>>>>

(* A reduction that has passed the checks at its head: the buffer is not   *)
(* empty, the axis is None or below the rank, the rank is 1, 2 or 3.       *)
PassedChecks == IsReduction /\ TheData # <<>> /\ TheRank \in {1, 2, 3} /\ AxisInRange

(* C24: in a reduction that has passed the three checks every group that   *)
(* is aggregated holds at least one element: the ok_or(EmptyArray) of a     *)
(* group is not taken, so the call does not return EmptyArray, and the      *)
(* count mean divides by is not zero.                                       *)
C24_GroupsNonEmpty ==
    PassedChecks =>
        LET walk == AxisWalk(arr[1], last.arg)
        IN  /\ Len(walk) > 0
            /\ \A k \in 1..Len(walk) : walk[k].tag = "Ok" => walk[k].val # <<>>
            /\ ~(last.ret.tag = "Err" /\ last.ret.kind = "EmptyArray")
            /\ Divisor(arr[1], last.arg) > 0
            /\ (last.call = "mean_compute" /\ Comparable(AllIndices)) =>
                  /\ last.ret.tag = "Ok"
                  /\ \A k \in 1..Len(last.ret.val) : last.ret.val[k] # FNaN

C24_Witness ==
    /\ last.call = "max_compute"
    /\ last.arg = <<1>>
    /\ arr # <<>>
    /\ TheDims = <<2, 2>>
    /\ TheData = <<-1, 2, 2, -1>>
    /\ last.ret = Ok(<<2, 2>>)

(* C25: the checks of max_compute, min_compute and mean_compute run in the  *)
(* order emptiness, axis range, rank, and the first that fails decides: an  *)
(* empty buffer gives EmptyArray whatever the axis and the rank; a          *)
(* non-empty buffer with Some(a), a >= ndim, gives InvalidAxis whatever the *)
(* rank; UnimplementedDimension is returned exactly for a non-empty buffer  *)
(* of rank outside 1..3 with axis None or a < ndim.                         *)
C25_CheckOrder ==
    IsReduction =>
        LET r == last.ret
            outOfRange == last.arg # <<>> /\ last.arg[1] >= TheRank
        IN  /\ (r.tag = "Err" /\ r.kind = "EmptyArray") <=> TheData = <<>>
            /\ (r.tag = "Err" /\ r.kind = "InvalidAxis") <=> (TheData # <<>> /\ outOfRange)
            /\ (r.tag = "Err" /\ r.kind = "UnimplementedDimension") <=>
                  (TheData # <<>> /\ ~outOfRange /\ TheRank \notin {1, 2, 3})

C25_Witness ==
    /\ last.call = "min_compute"
    /\ last.arg = <<4>>
    /\ arr # <<>>
    /\ TheDims = <<2, 0, 1, 2>>
    /\ last.ret = Err("EmptyArray", <<>>)

(* C26: in a reduction that has passed the three checks, on an array that   *)
(* Array::new accepted, every index self.data[i] and every slice            *)
(* self.data[from..to] that the rank and axis arm computes is within the    *)
(* buffer: no read panics, so mean_compute returns, and max_compute and     *)
(* min_compute return unless the buffer holds a NaN.                        *)
C26_ReadsInBounds ==
    PassedChecks =>
        LET walk == AxisWalk(arr[1], last.arg)
        IN  /\ \A k \in 1..Len(walk) : walk[k].tag = "Ok"
            /\ last.call = "mean_compute" => last.ret.tag = "Ok"
            /\ Comparable(AllIndices) => last.ret.tag = "Ok"

C26_Witness ==
    /\ last.call = "mean_compute"
    /\ last.arg = <<0>>
    /\ arr # <<>>
    /\ TheDims = <<2, 1, 2>>
    /\ TheData = <<-1, 2, 2, 2>>
    /\ last.ret = Ok(<<Frac(1, 2), Frac(2, 1)>>)

(* C27: on a non-empty array of rank 2 or 3 a reduction with Some(a) goes   *)
(* past the axis check exactly when a < rank, so the axis match of rank 3   *)
(* sees only 0, 1 or 2 and its unreachable!() arm does not run (no panic    *)
(* but that of a NaN comparison), and the else branch of rank 2, taken for  *)
(* every axis but 0, sees only axis 1.                                      *)
C27_AxisArms ==
    (IsReduction /\ TheData # <<>> /\ TheRank \in {2, 3} /\ last.arg # <<>>) =>
        LET checked == last.ret.tag = "Err" /\ last.ret.kind = "InvalidAxis"
        IN  /\ checked <=> last.arg[1] >= TheRank
            /\ ~checked =>
                 /\ TheRank = 2 => last.arg[1] \in {0, 1}
                 /\ TheRank = 3 => last.arg[1] \in {0, 1, 2}
                 /\ (last.call = "mean_compute" \/ Comparable(AllIndices)) =>
                       last.ret.tag = "Ok"

C27_Witness ==
    /\ last.call = "mean_compute"
    /\ last.arg = <<2>>
    /\ arr # <<>>
    /\ TheDims = <<1, 2, 2>>
    /\ TheData = <<-1, 2, NaN, 2>>
    /\ last.ret = Ok(<<Frac(1, 2), FNaN>>)

(* C28: in a reduction along an axis of a non-empty array of rank 2 or 3    *)
(* the groups partition the buffer: every index 0..data.len() is read once, *)
(* by one group; every group reads extent[axis] indices; and the number of  *)
(* groups, the length of the result, is data.len() / extent[axis].  The     *)
(* indices are those the walk of the arm reads from a buffer that holds     *)
(* its own indices.                                                         *)
C28_GroupsPartition ==
    (PassedChecks /\ TheRank \in {2, 3} /\ last.arg # <<>>) =>
        LET n == Len(TheData)
            indices == [arr[1] EXCEPT !.data = [i \in 1..n |-> i - 1]]
            walk == AxisWalk(indices, last.arg)
            extent == TheDims[last.arg[1] + 1]
        IN  /\ \A k \in 1..Len(walk) : walk[k].tag = "Ok" /\ Len(walk[k].val) = extent
            /\ \A i \in 0..(n - 1) :
                  Cardinality({kj \in (1..Len(walk)) \X (1..extent) :
                                  walk[kj[1]].val[kj[2]] = i}) = 1
            /\ Len(walk) * extent = n
            /\ last.ret.tag = "Ok" => Len(last.ret.val) * extent = n

C28_Witness ==
    /\ last.call = "min_compute"
    /\ last.arg = <<1>>
    /\ arr # <<>>
    /\ TheDims = <<2, 2, 1>>
    /\ TheData = <<2, -1, -1, 2>>
    /\ last.ret = Ok(<<-1, -1>>)

(* The greatest and the least of the values of a sequence: one of them,    *)
(* and every other one is the same value or compares below (above) it.     *)
GreatestOf(m, vals) ==
    /\ \E k \in 1..Len(vals) : vals[k] = m
    /\ \A k \in 1..Len(vals) : vals[k] = m \/ (vals[k] # NaN /\ m # NaN /\ vals[k] <= m)

LeastOf(m, vals) ==
    /\ \E k \in 1..Len(vals) : vals[k] = m
    /\ \A k \in 1..Len(vals) : vals[k] = m \/ (vals[k] # NaN /\ m # NaN /\ m <= vals[k])

(* C29 as stated: on a non-empty array of rank 1, 2 or 3, when max (min)    *)
(* along a valid axis a has returned, max (min) with axis None returns one  *)
(* element, which is the greatest (least) of the elements returned for      *)
(* axis a, and every element returned for axis a is a value of the buffer.  *)
C29_AxisThenWhole ==
    (/\ last.call \in {"max_compute", "min_compute"}
     /\ PassedChecks
     /\ last.arg # <<>>
     /\ last.ret.tag = "Ok") =>
        /\ \A k \in 1..Len(last.ret.val) : last.ret.val[k] \in GroupVals(AllIndices)
        /\ WithAxisNone.tag = "Ok"
        /\ Len(WithAxisNone.val) = 1
        /\ last.call = "max_compute" => GreatestOf(WithAxisNone.val[1], last.ret.val)
        /\ last.call = "min_compute" => LeastOf(WithAxisNone.val[1], last.ret.val)

=============================================================================
